---- MODULE Spec2Model ----
(***************************************************************************)
(* Length feedback of the H5P "Structure Strip" content type.              *)
(*                                                                         *)
(* StructureStripContent exists in two revisions in the sources:           *)
(*   "floorCeil" : src/src/scripts/h5p-structure-strip-content.js          *)
(*                 (Math.floor / Math.ceil gaps, feedback widget)          *)
(*   "clamping"  : src/unnamed/part_000                                    *)
(*                 (Math.round gaps, textLengthMin/textLengthMax clamping) *)
(* The segment objects are modelled from StructureStripSection             *)
(* (src/src/scripts/h5p-structure-strip-section.js).                       *)
(*                                                                         *)
(* A text is represented by its length: the code only reads .length.       *)
(* JavaScript numbers are represented as exact rationals extended with     *)
(* NaN and +/-Infinity; the rounding error of IEEE doubles is not          *)
(* represented.                                                            *)
(***************************************************************************)
EXTENDS Integers, Sequences, FiniteSets, TLC

\* ------------------------------------------------------------------ bounds
MaxSegments == 2
MaxWeight == 2
MaxLen == 3
\* a segment list that holds a weight of 0 has at most this many segments
MaxUnvalidated == 1

\* default of params.slack (content.js:14)
DefaultSlack == 10

Variants == {"floorCeil", "clamping"}
FeedbackModes == {"continuously", "onRequest", "whileTyping"}
Slacks == {0, DefaultSlack}
Weights == 1..MaxWeight
Lens == 0..MaxLen
\* configured (textLengthMin, textLengthMax) pairs
LengthLimits == {<<0, 100>>, <<2, 3>>}

\* ------------------------------------------------- JavaScript numbers
Fin(n, d) == [k |-> "fin", n |-> n, d |-> d]
Num(i) == Fin(i, 1)
NaN == [k |-> "nan", n |-> 0, d |-> 1]
Inf(s) == [k |-> "inf", n |-> s, d |-> 1]

Sgn(i) == IF i > 0 THEN 1 ELSE IF i < 0 THEN -1 ELSE 0

IsZero(a) == a.k = "fin" /\ a.n = 0

NNeg(a) == [a EXCEPT !.n = -a.n]

NAdd(a, b) ==
  IF a.k = "nan" \/ b.k = "nan" THEN NaN
  ELSE IF a.k = "inf" /\ b.k = "inf" THEN (IF a.n = b.n THEN a ELSE NaN)
  ELSE IF a.k = "inf" THEN a
  ELSE IF b.k = "inf" THEN b
  ELSE Fin(a.n * b.d + b.n * a.d, a.d * b.d)

NSub(a, b) == NAdd(a, NNeg(b))

NMul(a, b) ==
  IF a.k = "nan" \/ b.k = "nan" THEN NaN
  ELSE IF a.k = "inf" \/ b.k = "inf"
    THEN (IF IsZero(a) \/ IsZero(b) THEN NaN ELSE Inf(Sgn(a.n) * Sgn(b.n)))
  ELSE Fin(a.n * b.n, a.d * b.d)

\* a / b; a zero divisor is +0 (no negative zero arises for 0 <= slack <= 100)
NDiv(a, b) ==
  IF a.k = "nan" \/ b.k = "nan" THEN NaN
  ELSE IF a.k = "inf" THEN (IF b.k = "inf" THEN NaN
                            ELSE Inf(a.n * (IF b.n < 0 THEN -1 ELSE 1)))
  ELSE IF b.k = "inf" THEN Num(0)
  ELSE IF b.n = 0 THEN (IF a.n = 0 THEN NaN ELSE Inf(Sgn(a.n)))
  ELSE IF b.n > 0 THEN Fin(a.n * b.d, a.d * b.n)
  ELSE Fin(-(a.n * b.d), -(a.d * b.n))

\* a < b ; every comparison with NaN is false
NLt(a, b) ==
  IF a.k = "nan" \/ b.k = "nan" THEN FALSE
  ELSE IF a.k = "inf" THEN a.n < 0 /\ ~(b.k = "inf" /\ b.n < 0)
  ELSE IF b.k = "inf" THEN b.n > 0
  ELSE a.n * b.d < b.n * a.d

NGt(a, b) == NLt(b, a)

\* Math.max(a, b)
MathMax(a, b) ==
  IF a.k = "nan" \/ b.k = "nan" THEN NaN
  ELSE IF NLt(a, b) THEN b ELSE a

\* Math.floor, Math.ceil, Math.round (round half up)
MathFloor(a) == IF a.k = "fin" THEN Num(a.n \div a.d) ELSE a
MathCeil(a) == IF a.k = "fin" THEN Num(-((-a.n) \div a.d)) ELSE a
MathRound(a) == IF a.k = "fin" THEN Num((2 * a.n + a.d) \div (2 * a.d)) ELSE a

\* ------------------------------------------------------------ Util (gcd)
RECURSIVE Util_greatestCommonDivisor(_, _)
Util_greatestCommonDivisor(a, b) ==
  IF b = 0 THEN a ELSE Util_greatestCommonDivisor(b, a % b)

\* numbers.reduce(callback) without initial value, on a non-empty array
RECURSIVE gcdReduce(_, _, _)
gcdReduce(previous, numbers, i) ==
  IF i > Len(numbers) THEN previous
  ELSE gcdReduce(IF previous = 0 THEN 1
                 ELSE Util_greatestCommonDivisor(previous, numbers[i]),
                 numbers, i + 1)

Util_greatestCommonDivisorArray(numbers) == gcdReduce(numbers[1], numbers, 2)

\* ------------------------------------------------- reference segment
\* variant: the last segment of maximum weight wins
RECURSIVE referenceReduceLastWins(_, _, _)
referenceReduceLastWins(previous, ws, i) ==
  IF i > Len(ws) THEN previous
  ELSE referenceReduceLastWins(IF ws[i] >= ws[previous] THEN i ELSE previous,
                               ws, i + 1)

RECURSIVE referenceReduce(_, _, _)
referenceReduce(previous, ws, i) ==
  IF i > Len(ws) THEN previous
  ELSE referenceReduce(IF ws[i] > ws[previous] THEN i ELSE previous, ws, i + 1)

\* index of the segment this.segments.reduce(...) returns (non-empty array)
determineReferenceSegment(ws) == referenceReduce(1, ws, 2)

RECURSIVE SumWeights(_, _)
SumWeights(ws, i) == IF i > Len(ws) THEN 0 ELSE ws[i] + SumWeights(ws, i + 1)

\* --------------------------------------------------- strings and entries
\* An entry of feedbackTexts, a status or an HTML token.
Entry(t, tpl, title, chars) == [t |-> t, tpl |-> tpl, title |-> title, chars |-> chars]
Null == Entry("null", "", 0, Num(0))
Undefined == Entry("undefined", "", 0, Num(0))
Str(s) == Entry("str", s, 0, Num(0))
\* template.replace(/@title/g, title).replace(/@chars/g, gap);
\* the title of a segment is represented by its index
Msg(tpl, title, gap) == Entry("msg", tpl, title, gap)

Templates(alright, tooLong, tooShort) ==
  [alright |-> alright, tooLong |-> tooLong, tooShort |-> tooShort]
NoTemplates == Templates(Undefined, "", "")
\* templates handed over by updateSegments and by checkAnswer
ContinuousTemplates == Templates(Undefined, "tooLong", "tooShort")
RequestTemplates == Templates(Null, "segmentTooLong", "segmentTooShort")
\* templates of a direct call of buildFeedbackTexts
DirectTemplates == {Templates(Str("alright"), "tooLong", "tooShort")}

\* ------------------------------------------------------------------ state
VARIABLES
  variant,                \* which revision of StructureStripContent runs
  params,                 \* this.params
  phase,                  \* "new", "constructed" or "threw" (constructor)
  weight,                 \* segment.params.weight, per segment
  text,                   \* length of segment.inputField.value, per segment
  disabled,               \* segment.inputField.disabled, per segment
  descriptionStatus,      \* segment.descriptionStatus.innerHTML, per segment
  mostImportantSegment,   \* index of this.mostImportantSegment
  mostImportantSegmentPercentage,
  greatestCommonDivisor,  \* this.greatestCommonDivisor
  textTemplates,          \* argument of the buildFeedbackTexts call of
                          \* the operation that ran last (NoTemplates if none)
  feedbackTexts,          \* result of that call
  shownHTML               \* feedbackTextHTML of the checkAnswer that ran
                          \* last: handed to this.feedback.setText
                          \* (content.js) or returned (part_000)

vars == <<variant, params, phase, weight, text, disabled, descriptionStatus,
          mostImportantSegment, mostImportantSegmentPercentage,
          greatestCommonDivisor, textTemplates, feedbackTexts, shownHTML>>

\* the fields buildFeedbackTexts reads
This == [variant |-> variant, params |-> params, weight |-> weight,
         text |-> text, mostImportantSegment |-> mostImportantSegment,
         mostImportantSegmentPercentage |-> mostImportantSegmentPercentage,
         greatestCommonDivisor |-> greatestCommonDivisor]

Segs == 1..Len(weight)

\* ------------------------------------------ buildFeedbackTexts, floorCeil
\* variant: no lower bound of one weight unit
referenceLengthUnfloored(this) == Num(this.text[this.mostImportantSegment])

referenceLength(this) ==
  MathMax(Num(this.text[this.mostImportantSegment]),
          NDiv(Num(this.weight[this.mostImportantSegment]),
               Num(this.greatestCommonDivisor)))

normalizedReferenceLength(this) ==
  NDiv(referenceLength(this), Num(this.weight[this.mostImportantSegment]))

normalizedLengthMax(this) ==
  NMul(normalizedReferenceLength(this),
       NAdd(Num(1), NDiv(Num(this.params.slack), Num(100))))

normalizedLengthMin(this) ==
  NMul(normalizedReferenceLength(this),
       NSub(Num(1), NDiv(Num(this.params.slack), Num(100))))

normalizedLength(this, i) == NDiv(Num(this.text[i]), Num(this.weight[i]))

\* variant: the excess is rounded up
tooLongGapCeil(this, i) ==
  MathCeil(NMul(NSub(normalizedLength(this, i), normalizedLengthMax(this)),
                Num(this.weight[i])))

tooLongGap(this, i) ==
  MathFloor(NMul(NSub(normalizedLength(this, i), normalizedLengthMax(this)),
                 Num(this.weight[i])))

\* variant: the shortfall is rounded to the nearest integer
tooShortGapRound(this, i) ==
  MathRound(NMul(NSub(normalizedLengthMin(this), normalizedLength(this, i)),
                 Num(this.weight[i])))

\* variant: the shortfall is rounded down
tooShortGapFloor(this, i) ==
  MathFloor(NMul(NSub(normalizedLengthMin(this), normalizedLength(this, i)),
                 Num(this.weight[i])))

tooShortGap(this, i) ==
  MathCeil(NMul(NSub(normalizedLengthMin(this), normalizedLength(this, i)),
                Num(this.weight[i])))

\* variant: both comparisons inverted
feedbackEntryInverted(this, tpl, i) ==
  IF NLt(normalizedLength(this, i), normalizedLengthMax(this))
    THEN (LET gap == tooLongGap(this, i)
          IN IF IsZero(gap) THEN Null ELSE Msg(tpl.tooLong, i, gap))
  ELSE IF NGt(normalizedLength(this, i), normalizedLengthMin(this))
    THEN Msg(tpl.tooShort, i, tooShortGap(this, i))
  ELSE tpl.alright

feedbackEntry(this, tpl, i) ==
  IF NGt(normalizedLength(this, i), normalizedLengthMax(this))
    THEN (LET gap == tooLongGap(this, i)
          IN IF IsZero(gap) THEN Null ELSE Msg(tpl.tooLong, i, gap))
  ELSE IF NLt(normalizedLength(this, i), normalizedLengthMin(this))
    THEN Msg(tpl.tooShort, i, tooShortGap(this, i))
  ELSE tpl.alright

\* ------------------------------------------- buildFeedbackTexts, clamping
rawReferenceLengthC(this) ==
  MathMax(Num(this.text[this.mostImportantSegment]),
          NDiv(Num(this.weight[this.mostImportantSegment]),
               Num(this.greatestCommonDivisor)))

clampedToMin(this) ==
  NLt(rawReferenceLengthC(this),
      NMul(this.params.textLengthMin, this.mostImportantSegmentPercentage))

lengthAfterMinC(this) ==
  IF clampedToMin(this)
    THEN NMul(this.params.textLengthMin, this.mostImportantSegmentPercentage)
    ELSE rawReferenceLengthC(this)

clampedToMax(this) ==
  NGt(lengthAfterMinC(this),
      NMul(this.params.textLengthMax, this.mostImportantSegmentPercentage))

referenceLengthC(this) ==
  IF clampedToMax(this)
    THEN NMul(this.params.textLengthMax, this.mostImportantSegmentPercentage)
    ELSE lengthAfterMinC(this)

\* variant: the slack is kept when the reference length is clamped
slackPercentageKept(this) == NDiv(Num(this.params.slack), Num(100))

slackPercentage(this) ==
  IF clampedToMin(this) \/ clampedToMax(this) THEN Num(0)
  ELSE NDiv(Num(this.params.slack), Num(100))

normalizedReferenceLengthC(this) ==
  NDiv(referenceLengthC(this), Num(this.weight[this.mostImportantSegment]))

normalizedLengthMaxC(this) ==
  NMul(normalizedReferenceLengthC(this), NAdd(Num(1), slackPercentage(this)))

normalizedLengthMinC(this) ==
  NMul(normalizedReferenceLengthC(this), NSub(Num(1), slackPercentage(this)))

tooLongGapC(this, i) ==
  MathRound(NMul(NSub(normalizedLength(this, i), normalizedLengthMaxC(this)),
                 Num(this.weight[i])))

tooShortGapC(this, i) ==
  MathRound(NMul(NSub(normalizedLengthMinC(this), normalizedLength(this, i)),
                 Num(this.weight[i])))

feedbackEntryC(this, tpl, i) ==
  IF NGt(normalizedLength(this, i), normalizedLengthMaxC(this))
    THEN (LET gap == tooLongGapC(this, i)
          IN IF IsZero(gap) THEN Null ELSE Msg(tpl.tooLong, i, gap))
  ELSE IF NLt(normalizedLength(this, i), normalizedLengthMinC(this))
    THEN Msg(tpl.tooShort, i, tooShortGapC(this, i))
  ELSE tpl.alright

\* ----------------------------------------------------- both revisions
\* the entry pushed for segment i
pushedEntry(this, tpl, i) ==
  IF this.variant = "floorCeil" THEN feedbackEntry(this, tpl, i)
  ELSE feedbackEntryC(this, tpl, i)

buildFeedbackTexts(this, tpl) ==
  [i \in 1..Len(this.weight) |-> pushedEntry(this, tpl, i)]

\* ------------------------------------------------------------- segments
\* setStatus of a segment; a segment without status element ignores it
setStatus(current, newText) == IF current = Undefined THEN current ELSE newText

\* text || '&nbsp;'
orBlank(e) == IF e \in {Null, Undefined, Str("")} THEN Str("&nbsp;") ELSE e

\* descriptionStatus of a new segment
initialStatus(feedbackMode) ==
  IF feedbackMode = "whileTyping" THEN Str("") ELSE Undefined

\* ------------------------------------------------------- updateSegments
\* the statuses updateSegments leaves behind
statusAfterUpdate(this, status) ==
  IF this.params.feedbackMode # "continuously" THEN status
  ELSE LET texts == buildFeedbackTexts(this, ContinuousTemplates)
       IN [i \in 1..Len(this.weight) |-> setStatus(status[i], orBlank(texts[i]))]

templatesOfUpdate(this) ==
  IF this.params.feedbackMode # "continuously" THEN NoTemplates
  ELSE ContinuousTemplates

textsOfUpdate(this) ==
  IF this.params.feedbackMode # "continuously" THEN <<>>
  ELSE buildFeedbackTexts(this, ContinuousTemplates)

\* ---------------------------------------------------------- checkAnswer
filterNotNull(texts) == SelectSeq(texts, LAMBDA e : e # Null)

\* variant: every item is put in front of the previous ones
RECURSIVE listItemsPrepend(_, _, _)
listItemsPrepend(previous, texts, i) ==
  IF i > Len(texts) THEN previous
  ELSE listItemsPrepend(<<Str("<li>"), texts[i], Str("</li>")>> \o previous,
                        texts, i + 1)

RECURSIVE listItems(_, _, _)
listItems(previous, texts, i) ==
  IF i > Len(texts) THEN previous
  ELSE listItems(previous \o <<Str("<li>"), texts[i], Str("</li>")>>,
                 texts, i + 1)

paragraph(e) == <<Str("<p>"), e, Str("</p>")>>

feedbackTextHTML(texts) ==
  IF Len(texts) = 0 THEN paragraph(Str("allSegmentsGood"))
  ELSE IF Len(texts) = 1 THEN paragraph(texts[1])
  ELSE <<Str("<ul>")>> \o listItems(<<>>, texts, 1) \o <<Str("</ul>")>>

feedbackTextHTMLC(texts) ==
  LET substituted == IF Len(texts) = 0 THEN <<Str("allSegmentsGood")>>
                     ELSE texts
  IN IF Len(substituted) = 1 THEN paragraph(substituted[1])
     ELSE <<Str("<ul>")>> \o listItems(<<>>, substituted, 1) \o <<Str("</ul>")>>

\* ------------------------------------------------------------------ Init
\* params.segments: lists of positive weights, and short lists that also
\* hold the weight 0, which the constructor does not reject
SegmentLists ==
  UNION ({[1..n -> Weights] : n \in 0..MaxSegments}
         \cup {[1..n -> Weights \cup {0}] : n \in 0..MaxUnvalidated})

Limits(v) == IF v = "floorCeil" THEN {<<0, 100>>} ELSE LengthLimits

Init ==
  /\ variant \in Variants
  /\ \E ws \in SegmentLists, sl \in Slacks, fm \in FeedbackModes,
        lim \in Limits(variant) :
       params = [segments |-> ws, slack |-> sl, feedbackMode |-> fm,
                 textLengthMin |-> Num(lim[1]), textLengthMax |-> Num(lim[2]),
                 \* history: the textLengthMax handed to the constructor,
                 \* which part_000:61 may overwrite
                 textLengthMaxGiven |-> Num(lim[2]),
                 previousState |-> [i \in 1..Len(ws) |-> 0]]
  /\ phase = "new"
  /\ weight = <<>>
  /\ text = <<>>
  /\ disabled = <<>>
  /\ descriptionStatus = <<>>
  /\ mostImportantSegment = 0
  /\ mostImportantSegmentPercentage = NaN
  /\ greatestCommonDivisor = 0
  /\ textTemplates = NoTemplates
  /\ feedbackTexts = <<>>
  /\ shownHTML = <<>>

\* ----------------------------------------------------------- constructor
\* params.textLengthMax after the constructor of the clamping revision
adjustedTextLengthMax(p, percentage) ==
  IF NLt(NMul(p.textLengthMax, percentage), p.textLengthMin) THEN Inf(1)
  ELSE p.textLengthMax

percentageOf(ws) ==
  NDiv(Num(ws[determineReferenceSegment(ws)]), Num(SumWeights(ws, 1)))

\* the object the constructor has built when it reaches its last statement
constructed(v, p) ==
  LET ws == p.segments
      pct == IF v = "clamping" THEN percentageOf(ws) ELSE NaN
  IN [variant |-> v,
      params |-> IF v = "clamping"
                   THEN [p EXCEPT !.textLengthMax = adjustedTextLengthMax(p, pct)]
                   ELSE p,
      weight |-> ws,
      text |-> p.previousState,
      mostImportantSegment |-> determineReferenceSegment(ws),
      mostImportantSegmentPercentage |-> pct,
      greatestCommonDivisor |-> Util_greatestCommonDivisorArray(ws)]

\* variant: an empty segment list is accepted
constructionOutcomeLenient(p) == "constructed"

\* reduce of an empty array without initial value throws a TypeError
constructionOutcome(p) ==
  IF Len(p.segments) = 0 THEN "threw" ELSE "constructed"

Constructor ==
  /\ phase = "new"
  /\ shownHTML' = <<>>
  /\ phase' = constructionOutcome(params)
  /\ IF Len(params.segments) = 0
       THEN \* the statements after the throw do not run
            /\ UNCHANGED <<variant, params, weight, text, disabled,
                           descriptionStatus, mostImportantSegment,
                           mostImportantSegmentPercentage,
                           greatestCommonDivisor, textTemplates,
                           feedbackTexts>>
       ELSE LET new == constructed(variant, params)
                fresh == [i \in 1..Len(new.weight) |->
                            initialStatus(params.feedbackMode)]
            IN /\ params' = new.params
               /\ weight' = new.weight
               /\ text' = new.text
               /\ disabled' = [i \in 1..Len(new.weight) |-> FALSE]
               /\ mostImportantSegment' = new.mostImportantSegment
               /\ mostImportantSegmentPercentage' =
                    new.mostImportantSegmentPercentage
               /\ greatestCommonDivisor' = new.greatestCommonDivisor
               /\ descriptionStatus' = statusAfterUpdate(new, fresh)
               /\ textTemplates' = templatesOfUpdate(new)
               /\ feedbackTexts' = textsOfUpdate(new)
               /\ UNCHANGED variant

\* ------------------------------------------------------------ operations
\* the learner types or deletes a character of segment i (n is the new
\* length); a longer edit is a sequence of such steps
InputChanged(i, n) ==
  /\ phase = "constructed"
  /\ i \in Segs
  /\ ~disabled[i]
  /\ n \in {text[i] - 1, text[i] + 1}
  /\ text' = [text EXCEPT ![i] = n]
  /\ shownHTML' = <<>>
  /\ LET new == [This EXCEPT !.text = text']
         listening == params.feedbackMode = "whileTyping"
     IN /\ descriptionStatus' = IF listening
                                  THEN statusAfterUpdate(new, descriptionStatus)
                                  ELSE descriptionStatus
        /\ textTemplates' = IF listening THEN templatesOfUpdate(new)
                            ELSE NoTemplates
        /\ feedbackTexts' = IF listening THEN textsOfUpdate(new) ELSE <<>>
  /\ UNCHANGED <<variant, params, phase, weight, disabled,
                 mostImportantSegment, mostImportantSegmentPercentage,
                 greatestCommonDivisor>>

UpdateSegments ==
  /\ phase = "constructed"
  /\ shownHTML' = <<>>
  /\ descriptionStatus' = statusAfterUpdate(This, descriptionStatus)
  /\ textTemplates' = templatesOfUpdate(This)
  /\ feedbackTexts' = textsOfUpdate(This)
  /\ UNCHANGED <<variant, params, phase, weight, text, disabled,
                 mostImportantSegment, mostImportantSegmentPercentage,
                 greatestCommonDivisor>>

BuildFeedbackTexts(tpl) ==
  /\ phase = "constructed"
  /\ textTemplates' = tpl
  /\ feedbackTexts' = buildFeedbackTexts(This, tpl)
  /\ shownHTML' = <<>>
  /\ UNCHANGED <<variant, params, phase, weight, text, disabled,
                 descriptionStatus, mostImportantSegment,
                 mostImportantSegmentPercentage, greatestCommonDivisor>>

CheckAnswer ==
  /\ phase = "constructed"
  /\ IF params.feedbackMode # "onRequest"
       THEN /\ shownHTML' = <<>>
            /\ textTemplates' = NoTemplates
            /\ feedbackTexts' = <<>>
            /\ UNCHANGED disabled
       ELSE LET texts == buildFeedbackTexts(This, RequestTemplates)
            IN /\ disabled' = [i \in Segs |-> TRUE]
               /\ textTemplates' = RequestTemplates
               /\ feedbackTexts' = texts
               /\ shownHTML' = IF variant = "floorCeil"
                                 THEN feedbackTextHTML(filterNotNull(texts))
                                 ELSE feedbackTextHTMLC(filterNotNull(texts))
  /\ UNCHANGED <<variant, params, phase, weight, text, descriptionStatus,
                 mostImportantSegment, mostImportantSegmentPercentage,
                 greatestCommonDivisor>>

EnableSegments ==
  /\ phase = "constructed"
  /\ shownHTML' = <<>>
  /\ disabled' = [i \in Segs |-> FALSE]
  /\ textTemplates' = NoTemplates
  /\ feedbackTexts' = <<>>
  /\ UNCHANGED <<variant, params, phase, weight, text, descriptionStatus,
                 mostImportantSegment, mostImportantSegmentPercentage,
                 greatestCommonDivisor>>

Next ==
  \/ Constructor
  \/ \E i \in 1..MaxSegments, n \in Lens : InputChanged(i, n)
  \/ UpdateSegments
  \/ \E tpl \in DirectTemplates : BuildFeedbackTexts(tpl)
  \/ CheckAnswer
  \/ EnableSegments

Spec == Init /\ [][Next]_vars

\* =================================================================
\* Properties
\* =================================================================
IsConstructed == phase = "constructed"
PositiveWeights == \A i \in Segs : weight[i] > 0
\* the operation that ran last has called buildFeedbackTexts (checkAnswer
\* with RequestTemplates, updateSegments with ContinuousTemplates)
Evaluated == IsConstructed /\ textTemplates # NoTemplates
IsMsg(e) == e.t = "msg"
IsTooLongMsg(e) == e.t = "msg" /\ e.tpl \in {"tooLong", "segmentTooLong"}
IsTooShortMsg(e) == e.t = "msg" /\ e.tpl \in {"tooShort", "segmentTooShort"}

\* The band of the specification, in integer arithmetic (positive weights):
\*   referenceLength = num / sum,  exact gaps have the denominator den.
RefIdx ==
  CHOOSE i \in Segs : /\ \A j \in Segs : weight[j] <= weight[i]
                      /\ \A j \in Segs : j < i => weight[j] < weight[i]
Divides(d) == \A i \in Segs : weight[i] % d = 0
TrueGcd == CHOOSE d \in 1..MaxWeight :
             Divides(d) /\ \A e \in 1..MaxWeight : Divides(e) => e <= d
Band ==
  LET r == RefIdx
      refWeight == weight[r]
      unit == refWeight \div TrueGcd
      sum == SumWeights(weight, 1)
      \* max(reference text length, referenceWeight / gcd)
      floored == IF text[r] >= unit THEN text[r] ELSE unit
      \* clamping against textLengthMin / textLengthMax times the share
      clampsLow == variant = "clamping"
                   /\ floored * sum < params.textLengthMin.n * refWeight
      afterMin == IF clampsLow THEN params.textLengthMin.n * refWeight
                  ELSE floored * sum
      clampsHigh == /\ variant = "clamping"
                    /\ params.textLengthMax.k = "fin"
                    /\ afterMin > params.textLengthMax.n * refWeight
  IN [ref |-> r,
      floorActive |-> text[r] < unit,
      num |-> IF clampsHigh THEN params.textLengthMax.n * refWeight ELSE afterMin,
      slack |-> IF clampsLow \/ clampsHigh THEN 0 ELSE params.slack,
      den |-> 100 * sum * refWeight]
\* (normalizedLength - bandMax) * weight = ExcessNum(b, i) / b.den
ExcessNum(b, i) == text[i] * b.den - b.num * (100 + b.slack) * weight[i]
\* (bandMin - normalizedLength) * weight = ShortfallNum(b, i) / b.den
ShortfallNum(b, i) == b.num * (100 - b.slack) * weight[i] - text[i] * b.den

IsInt(g) == g.k = "fin" /\ g.d = 1
\* g is the floor, the ceiling, the nearest integer (half up) of num / den
IsFloorOf(g, num, den) == IsInt(g) /\ g.n * den <= num /\ num < (g.n + 1) * den
IsCeilOf(g, num, den) == IsInt(g) /\ (g.n - 1) * den < num /\ num <= g.n * den
IsNearestOf(g, num, den) ==
  IsInt(g) /\ (2 * g.n - 1) * den <= 2 * num /\ 2 * num < (2 * g.n + 1) * den

\* C1: for positive integer weights and slack >= 0, buildFeedbackTexts of
\* the floor/ceil revision returns one entry per segment, in segment order;
\* the entry of segment s is a too-long message or the suppressed null iff
\* len(s)/weight(s) > bandMax, a too-short message iff it is < bandMin, and
\* the alright template otherwise, with the band derived from
\* max(reference text length, referenceWeight / gcd) and the slack.
C1_Classification ==
  (Evaluated /\ variant = "floorCeil" /\ PositiveWeights) =>
    /\ Len(feedbackTexts) = Len(weight)
    /\ LET b == Band IN \A i \in Segs :
         LET e == feedbackTexts[i]
         IN IF ExcessNum(b, i) > 0
              THEN e = Null \/ (IsMsg(e) /\ e.tpl = textTemplates.tooLong /\ e.title = i)
            ELSE IF ShortfallNum(b, i) > 0
              THEN IsMsg(e) /\ e.tpl = textTemplates.tooShort /\ e.title = i
            ELSE e = textTemplates.alright

C1_Witness ==
  /\ Evaluated /\ variant = "floorCeil" /\ PositiveWeights
  /\ textTemplates \in DirectTemplates
  /\ params.slack > 0
  /\ Len(weight) = 2
  /\ \E i, j \in Segs : /\ IsTooLongMsg(feedbackTexts[i])
                        /\ IsTooShortMsg(feedbackTexts[j])
  /\ Band.floorActive

\* C2: in every state after construction mostImportantSegment is the first
\* segment in input order whose weight is >= every other weight, and no
\* evaluation call (updateSegments, buildFeedbackTexts, checkAnswer) changes
\* a text, a weight, the reference segment or the stored gcd.
C2_ReferenceSegment ==
  [][ /\ (phase' = "constructed" => mostImportantSegment' = RefIdx')
      /\ (IsConstructed /\ textTemplates' # NoTemplates)
            => UNCHANGED <<text, weight, mostImportantSegment,
                           greatestCommonDivisor>> ]_vars

C2_Witness ==
  /\ IsConstructed
  /\ Len(weight) = 2 /\ weight[1] = weight[2]
  /\ mostImportantSegment = 1
  /\ textTemplates = RequestTemplates
  /\ text[2] > 0

\* C3 (as stated): the rounding depends on the calling mode: updateSegments
\* rounds both gaps to the nearest integer, checkAnswer floors the too-long
\* gap and ceils the too-short gap.
C3_RoundingByMode ==
  (Evaluated /\ PositiveWeights) =>
    LET b == Band IN \A i \in Segs :
      LET e == feedbackTexts[i]
      IN /\ (textTemplates = ContinuousTemplates /\ IsTooLongMsg(e))
              => IsNearestOf(e.chars, ExcessNum(b, i), b.den)
         /\ (textTemplates = ContinuousTemplates /\ IsTooShortMsg(e))
              => IsNearestOf(e.chars, ShortfallNum(b, i), b.den)
         /\ (textTemplates = RequestTemplates /\ IsTooLongMsg(e))
              => IsFloorOf(e.chars, ExcessNum(b, i), b.den)
         /\ (textTemplates = RequestTemplates /\ IsTooShortMsg(e))
              => IsCeilOf(e.chars, ShortfallNum(b, i), b.den)

\* C3 (amended): the rounding depends on the revision, not on the calling
\* mode: the floor/ceil revision floors the too-long gap and ceils the
\* too-short gap in updateSegments and in checkAnswer alike, the clamping
\* revision rounds both gaps to the nearest integer in both.
C3_RoundingByRevision ==
  (Evaluated /\ PositiveWeights) =>
    LET b == Band IN \A i \in Segs :
      LET e == feedbackTexts[i]
      IN /\ (variant = "floorCeil" /\ IsTooLongMsg(e))
              => IsFloorOf(e.chars, ExcessNum(b, i), b.den)
         /\ (variant = "floorCeil" /\ IsTooShortMsg(e))
              => IsCeilOf(e.chars, ShortfallNum(b, i), b.den)
         /\ (variant = "clamping" /\ IsTooLongMsg(e))
              => IsNearestOf(e.chars, ExcessNum(b, i), b.den)
         /\ (variant = "clamping" /\ IsTooShortMsg(e))
              => IsNearestOf(e.chars, ShortfallNum(b, i), b.den)

C3_Witness ==
  /\ Evaluated /\ PositiveWeights
  /\ variant = "floorCeil"
  /\ textTemplates = ContinuousTemplates
  /\ \E i \in Segs : /\ IsTooShortMsg(feedbackTexts[i])
                     /\ ~IsNearestOf(feedbackTexts[i].chars,
                                     ShortfallNum(Band, i), Band.den)

\* C4 (as stated): on request, the reported number of characters to add is
\* never greater than the exact shortfall and the reported number of
\* characters to remove is never less than the exact excess.
C4_Conservative ==
  (Evaluated /\ PositiveWeights /\ textTemplates = RequestTemplates) =>
    LET b == Band IN \A i \in Segs :
      LET e == feedbackTexts[i]
      IN /\ IsTooShortMsg(e) =>
              (IsInt(e.chars) /\ e.chars.n * b.den <= ShortfallNum(b, i))
         /\ IsTooLongMsg(e) =>
              (IsInt(e.chars) /\ e.chars.n * b.den >= ExcessNum(b, i))

\* C4 (amended): on request, in the floor/ceil revision, the reported number
\* of characters to add is never less than the exact shortfall and the
\* reported number of characters to remove is never greater than the exact
\* excess.
C4_RoundsTowardsBand ==
  (Evaluated /\ PositiveWeights /\ textTemplates = RequestTemplates
     /\ variant = "floorCeil") =>
    LET b == Band IN \A i \in Segs :
      LET e == feedbackTexts[i]
      IN /\ IsTooShortMsg(e) =>
              (IsInt(e.chars) /\ e.chars.n * b.den >= ShortfallNum(b, i))
         /\ IsTooLongMsg(e) =>
              (IsInt(e.chars) /\ e.chars.n * b.den <= ExcessNum(b, i))

C4_Witness ==
  /\ Evaluated /\ PositiveWeights /\ textTemplates = RequestTemplates
  /\ variant = "floorCeil"
  /\ \E i \in Segs : /\ IsTooLongMsg(feedbackTexts[i])
                     /\ feedbackTexts[i].chars.n * Band.den < ExcessNum(Band, i)

\* C5: for positive integer weights every gap is a non-negative integer, a
\* gap of 0 occurs only in the suppressed case, and every too-long or
\* too-short message that is emitted carries a gap >= 1.
C5_GapAtLeastOne ==
  (Evaluated /\ PositiveWeights) =>
    \A i \in Segs :
      IsMsg(feedbackTexts[i]) =>
        (IsInt(feedbackTexts[i].chars) /\ feedbackTexts[i].chars.n >= 1)

\* the verdict of segment i: 0 too short, 1 alright, 2 too long or suppressed
VerdictRankOf(this, i) ==
  LET e == pushedEntry(this, Templates(Str("alright"), "tooLong", "tooShort"), i)
  IN IF IsTooShortMsg(e) THEN 0 ELSE IF e = Str("alright") THEN 1 ELSE 2
VerdictRank(i) == VerdictRankOf(This, i)
\* the object in the next state
ThisNext == [variant |-> variant', params |-> params', weight |-> weight',
             text |-> text', mostImportantSegment |-> mostImportantSegment',
             mostImportantSegmentPercentage |-> mostImportantSegmentPercentage',
             greatestCommonDivisor |-> greatestCommonDivisor']

\* C6: when the text of a segment (the reference segment included) becomes
\* longer while the other texts stay as they are, its verdict only moves
\* forward along too-short -> alright -> too-long, never backward.
C6_Monotonic ==
  [][ IsConstructed =>
        \A i \in Segs : text'[i] > text[i] =>
                          VerdictRankOf(ThisNext, i) >= VerdictRank(i)
    ]_vars

C6_Witness ==
  /\ IsConstructed /\ PositiveWeights
  /\ textTemplates = NoTemplates
  /\ Len(weight) = 2
  /\ \E i \in Segs : text[i] > 0 /\ i = mostImportantSegment /\ VerdictRank(i) = 1
  /\ \E i \in Segs : text[i] > 0 /\ i # mostImportantSegment /\ VerdictRank(i) = 2

\* the report checkAnswer has produced
Report == shownHTML
\* the entries of feedbackTexts that are messages, in segment order
Remaining == SelectSeq(feedbackTexts, IsMsg)

\* C7: in onRequest mode checkAnswer builds its report from the entries
\* that are not null: the "all segments good" message in a paragraph if
\* none remains, the one message in a paragraph if one remains, otherwise a
\* list that holds every remaining message exactly once, in segment order.
C7_Report ==
  (IsConstructed /\ textTemplates = RequestTemplates) =>
    IF Len(Remaining) = 0
      THEN Report = <<Str("<p>"), Str("allSegmentsGood"), Str("</p>")>>
    ELSE IF Len(Remaining) = 1
      THEN Report = <<Str("<p>"), Remaining[1], Str("</p>")>>
    ELSE /\ Len(Report) = 3 * Len(Remaining) + 2
         /\ Report[1] = Str("<ul>")
         /\ Report[Len(Report)] = Str("</ul>")
         /\ \A j \in 1..Len(Remaining) :
              /\ Report[3 * j - 1] = Str("<li>")
              /\ Report[3 * j] = Remaining[j]
              /\ Report[3 * j + 1] = Str("</li>")

C7_Witness ==
  /\ IsConstructed /\ textTemplates = RequestTemplates
  /\ params.feedbackMode = "onRequest"
  /\ Len(Remaining) = 2
  /\ Remaining[1] # Remaining[2]
  /\ Len(Report) = 8

\* C8: in continuous mode, after every content change the displayed status
\* of each segment is the alright text when its verdict is alright, the
\* too-long text when too long, the too-short text when too short, and the
\* blank placeholder only when the verdict is suppressed.
C8_DisplayedStatus ==
  (IsConstructed /\ params.feedbackMode = "continuously" /\ PositiveWeights) =>
    LET b == Band IN \A i \in Segs :
      /\ ExcessNum(b, i) > 0 => \/ IsTooLongMsg(descriptionStatus[i])
                                \/ descriptionStatus[i] = Str("&nbsp;")
      /\ ShortfallNum(b, i) > 0 => IsTooShortMsg(descriptionStatus[i])
      /\ (ExcessNum(b, i) <= 0 /\ ShortfallNum(b, i) <= 0) =>
           (descriptionStatus[i].t = "str" /\ descriptionStatus[i] # Str("&nbsp;"))

C10_NoZeroGcdVerdicts ==
  ~(Evaluated /\ greatestCommonDivisor = 0 /\ Len(feedbackTexts) > 0)

\* ---- clamping revision: the band against the configured length limits
\* a is the rational num / den
RatEq(a, num, den) == a.k = "fin" /\ a.n * den = num * a.d
TotalWeight == SumWeights(weight, 1)
\* max(reference text length, referenceWeight / gcd), positive weights
RawReference ==
  LET unit == weight[RefIdx] \div TrueGcd
  IN IF text[RefIdx] >= unit THEN text[RefIdx] ELSE unit
\* RawReference < textLengthMin * referenceShare
BelowMin == RawReference * TotalWeight < params.textLengthMin.n * weight[RefIdx]
\* RawReference > textLengthMax * referenceShare, for the textLengthMax of
\* the configuration and for the one the constructor has left in params
AboveGivenMax ==
  RawReference * TotalWeight > params.textLengthMaxGiven.n * weight[RefIdx]
AboveMax ==
  /\ params.textLengthMax.k = "fin"
  /\ RawReference * TotalWeight > params.textLengthMax.n * weight[RefIdx]
\* the reference length is limit * referenceShare, the slack used is 0,
\* bandMin = bandMax = limit * referenceShare / referenceWeight, and the
\* entries returned are those of that band
ClampedAt(limit) ==
  /\ IsZero(slackPercentage(This))
  /\ RatEq(referenceLengthC(This), limit * weight[RefIdx], TotalWeight)
  /\ RatEq(normalizedLengthMinC(This), limit, TotalWeight)
  /\ RatEq(normalizedLengthMaxC(This), limit, TotalWeight)
  /\ \A i \in Segs :
       LET e == feedbackTexts[i]
           over == text[i] * TotalWeight - limit * weight[i]
       IN IF over > 0
            THEN \/ e = Null
                 \/ IsTooLongMsg(e) /\ IsNearestOf(e.chars, over, TotalWeight)
          ELSE IF over < 0
            THEN IsTooShortMsg(e) /\ IsNearestOf(e.chars, -over, TotalWeight)
          ELSE e = textTemplates.alright

C11_BelowMinReached ==
  /\ Evaluated /\ variant = "clamping" /\ PositiveWeights
  /\ BelowMin /\ params.slack > 0

\* ---- following the advice of a message
\* the object after the text of segment i has become n characters long
WithText(i, n) == [This EXCEPT !.text[i] = n]
\* the entry buildFeedbackTexts returns for segment i after that edit
EntryAfter(i, n) == pushedEntry(WithText(i, n), textTemplates, i)

\* C12: in the floor/ceil revision, for positive integer weights and slack
\* >= 0, for every segment s other than the reference segment: when
\* buildFeedbackTexts reports s too short with gap k, then after exactly k
\* characters are added to s (all other texts unchanged) the entry of s is
\* neither a too-short nor a too-long message; when it reports s too long
\* with gap k, then after exactly k characters are removed from s the entry
\* of s is neither a too-long nor a too-short message.
C12_AdviceClearsMessage ==
  (Evaluated /\ variant = "floorCeil" /\ PositiveWeights) =>
    \A i \in Segs \ {mostImportantSegment} :
      LET e == feedbackTexts[i]
      IN /\ IsTooShortMsg(e) =>
              /\ IsInt(e.chars)
              /\ ~IsMsg(EntryAfter(i, text[i] + e.chars.n))
         /\ IsTooLongMsg(e) =>
              /\ IsInt(e.chars) /\ e.chars.n <= text[i]
              /\ ~IsMsg(EntryAfter(i, text[i] - e.chars.n))

C12_Witness ==
  /\ Evaluated /\ variant = "floorCeil" /\ PositiveWeights
  /\ params.slack > 0
  /\ \E i \in Segs \ {mostImportantSegment} :
       /\ IsTooShortMsg(feedbackTexts[i])
       /\ feedbackTexts[i].chars.n >= 2
       /\ EntryAfter(i, text[i] + feedbackTexts[i].chars.n) = Null

====
